---- MODULE Spec2Model ----
(***************************************************************************)
(* rvault: vault life cycle (src/core/rvault.c) over the on-disk metadata  *)
(* layout of src/core/storage.h.                                           *)
(*                                                                         *)
(* The metadata file is a sequence of cells.  A cell below 256 is a        *)
(* concrete byte.  A cell 256*i + v (1 <= i <= 32) is byte i of the one    *)
(* HMAC-SHA3-256 digest the file carries (the field mac of the file),      *)
(* shifted by v modulo 256: v = 0 is the digest byte as computed.  The     *)
(* digest itself is symbolic, the pair (key, data): two digests are equal  *)
(* exactly when key and data are.  Keys are symbolic in the same way.      *)
(***************************************************************************)
EXTENDS Integers, Sequences, FiniteSets, TLC

VARIABLES
    bigEndian,   \* byte order of the host the program was built for
    disk,        \* the metadata file of the vault directory
    server,      \* the key server: the wrapped key it holds for each UID
    vault,       \* the vault handle the caller holds (isNull when none)
    last,        \* what the last operation did and returned
    origin,      \* history: the last successful rvault_init of this directory
    ninit        \* the number of rvault_init calls so far

vars == <<bigEndian, disk, server, vault, last, origin, ninit>>

-----------------------------------------------------------------------------
(* Bounds of the model. *)

\* KDF parameter blobs of 1 .. MaxKpLen bytes (the code allows up to 255).
MaxKpLen == 2

\* At most MaxFiles file objects are open in a vault at a time.
MaxFiles == 2

\* Directories of up to MaxDirEntries entries are enumerated.
MaxDirEntries == 3

-----------------------------------------------------------------------------
(* Program constants. *)

STORAGE_ALIGNMENT == 64
HMAC_SHA3_256_BUFLEN == 32
RVAULT_ABI_VER == 3
RVAULT_FLAG_NOAUTH == 1
CIPHER_NONE == 0
UidLen == 16

\* sizeof(rvault_hdr_t): ver, cipher, iv_len, kp_len, uid[16], flags, packed.
SizeofHdr == 23

\* 1-based cell positions of the header fields.
OffVer == 1
OffCipher == 2
OffIvLen == 3
OffKpLen == 5
OffUid == 7
OffFlags == 23

STORAGE_ALIGN(x) == ((x + STORAGE_ALIGNMENT - 1) \div STORAGE_ALIGNMENT) * STORAGE_ALIGNMENT

RVAULT_HDR_LEN == STORAGE_ALIGN(SizeofHdr)

Min(a, b) == IF a < b THEN a ELSE b

-----------------------------------------------------------------------------
(* Byte order. *)

htobe16(n) == << (n \div 256) % 256, n % 256 >>

be16toh(b) == b[1] * 256 + b[2]

\* A uint16_t assigned or read without conversion: host byte order.
HostStore16(n) == IF bigEndian THEN << (n \div 256) % 256, n % 256 >>
                  ELSE << n % 256, (n \div 256) % 256 >>

HostLoad16(b) == IF bigEndian THEN b[1] * 256 + b[2] ELSE b[1] + 256 * b[2]

-----------------------------------------------------------------------------
(* Buffers. *)

Zeros(n) == SubSeq([i \in 1..n |-> 0], 1, n)

\* memcpy(buf + off, src, Len(src)); cells past the end of buf are not in buf.
PutCells(buf, off, src) ==
    IF off >= Len(buf) THEN buf
    ELSE LET n == Min(Len(src), Len(buf) - off)
         IN  SubSeq(buf, 1, off) \o SubSeq(src, 1, n) \o SubSeq(buf, off + n + 1, Len(buf))

\* The n cells at buf + off, as far as buf holds them.
GetCells(buf, off, n) ==
    IF off >= Len(buf) \/ n <= 0 THEN << >>
    ELSE SubSeq(buf, off + 1, Min(off + n, Len(buf)))

Field16(h, off) == << h[off], h[off + 1] >>

\* be16toh((h)->iv_len) and be16toh((h)->kp_len)
HdrIvLen(h) == be16toh(Field16(h, OffIvLen))
HdrKpLenBE(h) == be16toh(Field16(h, OffKpLen))

\* Offsets (in bytes from the header) the layout macros compute.
RVAULT_HDR_TO_IV(h) == RVAULT_HDR_LEN
RVAULT_HDR_TO_KP(h) == RVAULT_HDR_TO_IV(h) + HdrIvLen(h)
RVAULT_HDR_TO_HMAC(h) == RVAULT_HDR_TO_KP(h) + HdrKpLenBE(h)
RVAULT_HMAC_DATALEN(h) == RVAULT_HDR_LEN + HdrIvLen(h) + HdrKpLenBE(h)
RVAULT_FILE_LEN(h) == RVAULT_HMAC_DATALEN(h) + HMAC_SHA3_256_BUFLEN

-----------------------------------------------------------------------------
(* Keys, digests, the crypto primitives. *)

NoKey == [kind |-> "none", pwd |-> "", salt |-> << >>, rnd |-> 0]

\* K_p: scrypt over the passphrase and the KDF parameter blob.
PassphraseKey(pwd, kp) == [kind |-> "Kp", pwd |-> pwd, salt |-> kp, rnd |-> 0]

\* K_e: a randomly generated key, the r-th one generated.
RandomKey(r) == [kind |-> "Ke", pwd |-> "", salt |-> << >>, rnd |-> r]

\* What decrypting a wrapped key under another key than it was wrapped with
\* yields, when the decryption does not fail.
JunkKey(k, ks) == [kind |-> "junk", pwd |-> k.pwd, salt |-> k.salt, rnd |-> ks.ke.rnd]

NoMac == [key |-> NoKey, data |-> << >>]

hmac_sha3_256(key, data) == [key |-> key, data |-> data]

MacCell(i, v) == 256 * i + v

\* The HMAC_SHA3_256_BUFLEN bytes of a digest, as cells.
MacCells == [i \in 1..HMAC_SHA3_256_BUFLEN |-> MacCell(i, 0)]

CipherNames == << "aes-256-cbc", "chacha20", "aes-256-gcm", "chacha20-poly1305" >>

CRYPTO_CIPHER_PRIMARY == 1

crypto_cipher_id(str) ==
    IF \E c \in 1..Len(CipherNames) : CipherNames[c] = str
    THEN CHOOSE c \in 1..Len(CipherNames) : CipherNames[c] = str
    ELSE CIPHER_NONE

\* The IV length each cipher requires.
CipherIvLen == << 16, 16, 12, 12 >>

ValidCipher(c) == c \in 1..Len(CipherIvLen)

\* crypto_gen_iv: a fresh IV of the cipher's length.
GenIv(c) == [i \in 1..CipherIvLen[c] |-> 160 + i]

\* kdf_create_params: a fresh parameter blob (salt and cost).
GenKp(n) == [i \in 1..n |-> 176 + i]

\* hex_read_arbitrary_buf: a string of hex digits (a sequence of digit values,
\* 16 standing for any other character) to bytes; isNull when it is no hex.
hex_read_arbitrary_buf(str) ==
    IF Len(str) % 2 = 0 /\ \A i \in 1..Len(str) : str[i] < 16
    THEN [isNull |-> FALSE,
          buf |-> [i \in 1..(Len(str) \div 2) |-> 16 * str[2 * i - 1] + str[2 * i]]]
    ELSE [isNull |-> TRUE, buf |-> << >>]

-----------------------------------------------------------------------------
(* The metadata file. *)

NoFile == [exists |-> FALSE, cells |-> << >>, mac |-> NoMac]

HasMacCell(cells) == \E i \in 1..Len(cells) : cells[i] >= 256

\* A file of the given cells; mac is the digest its digest cells are bytes of.
FileOf(cells, mac) ==
    [exists |-> TRUE, cells |-> cells, mac |-> IF HasMacCell(cells) THEN mac ELSE NoMac]

Paths == {"vault", "nodir"}

\* get_vault_path: realpath and the directory test.
get_vault_path(path) == path = "vault"

\* The open(2) of open_metadata.  oflags is the set of O_ flags; ok is whether
\* the system call itself succeeds (no EMFILE, EACCES, ENOSPC ...).
\* Returns the descriptor (-1: error) and the file as the call leaves it.
open_metadata_noexcl(d, path, oflags, ok) ==
    IF ~get_vault_path(path) \/ ~ok THEN [fd |-> -1, disk |-> d]
    ELSE IF d.exists THEN [fd |-> 3, disk |-> d]
    ELSE IF "O_CREAT" \in oflags THEN [fd |-> 3, disk |-> FileOf(<< >>, NoMac)]
    ELSE [fd |-> -1, disk |-> d]

open_metadata(d, path, oflags, ok) ==
    IF ~get_vault_path(path) \/ ~ok THEN [fd |-> -1, disk |-> d]
    ELSE IF d.exists
         THEN IF {"O_CREAT", "O_EXCL"} \subseteq oflags
              THEN [fd |-> -1, disk |-> d]
              ELSE [fd |-> 3, disk |-> d]
    ELSE IF "O_CREAT" \in oflags THEN [fd |-> 3, disk |-> FileOf(<< >>, NoMac)]
    ELSE [fd |-> -1, disk |-> d]

\* fs_write(fd, buf, n) at offset 0 of the file d: the first n cells of buf
\* replace the first n cells of the file.
fs_write(d, buf, mac, n) ==
    LET old == d.cells
        new == SubSeq(buf, 1, n) \o SubSeq(old, n + 1, Len(old))
    IN  FileOf(new, IF HasMacCell(SubSeq(buf, 1, n)) THEN mac ELSE d.mac)

-----------------------------------------------------------------------------
(* The key server: register (rvault_key_set) and fetch (rvault_key_get). *)

NoWrapped == [kp |-> NoKey, ke |-> NoKey]

NoServer == [has |-> FALSE, uid |-> << >>, ks |-> NoWrapped]

\* K_s = Enc(K_p, K_e)
Wrap(kp, ke) == [kp |-> kp, ke |-> ke]

\* rvault_key_set: generate K_e, wrap it under the installed K_p, post it for
\* the UID; when the server accepts, K_e is the installed key.
rvault_key_set(srv, uid, key, ke, accept) ==
    IF accept
    THEN [ret |-> 0, key |-> ke,
          server |-> [has |-> TRUE, uid |-> uid, ks |-> Wrap(key, ke)]]
    ELSE [ret |-> -1, key |-> key, server |-> srv]

\* rvault_key_get: fetch the wrapped key of the UID and decrypt it under the
\* installed key.  auth: the server accepts the token.  junk: decrypting with
\* another key than the wrapping one does not fail but yields another key.
rvault_key_get(srv, uid, key, auth, junk) ==
    IF ~auth \/ ~srv.has \/ srv.uid # uid THEN [ret |-> -1, key |-> key]
    ELSE IF srv.ks.kp = key THEN [ret |-> 0, key |-> srv.ks.ke]
    ELSE IF junk THEN [ret |-> 0, key |-> JunkKey(key, srv.ks)]
    ELSE [ret |-> -1, key |-> key]

NoAuth(flags) == flags % 2 = RVAULT_FLAG_NOAUTH

-----------------------------------------------------------------------------
(* rvault_init *)

\* The result of rvault_init: ret (0 or -1), the step it ended at ("killed":
\* the process died of the out-of-bounds access and nothing was returned), the
\* file and the server as it leaves them, the life of its crypto object, the
\* key the HMAC was computed with, and whether the server was asked.
InitRes(ret, step, d, srv, crypto, key, asked) ==
    [ret |-> ret, step |-> step, disk |-> d, server |-> srv, crypto |-> crypto,
     key |-> key, asked |-> asked]

\* memcpy(RVAULT_HDR_TO_IV(hdr), iv, iv_len), memcpy(RVAULT_HDR_TO_KP(hdr), ...)
\* and memcpy(RVAULT_HDR_TO_HMAC(hdr), ...): the offset is read from the header.
PutIv(h, iv) == PutCells(h, RVAULT_HDR_TO_IV(h), iv)
PutKp(h, kp) == PutCells(h, RVAULT_HDR_TO_KP(h), kp)
PutHmac(h, hmac) == PutCells(h, RVAULT_HDR_TO_HMAC(h), hmac)

\* The header fields of rvault_init: kp_len is assigned as it is, iv_len
\* through htobe16.
InitFields(h, cipher, flags, iv_len, kp_len) ==
    PutCells(PutCells(PutCells(PutCells(PutCells(h,
        OffVer - 1, << RVAULT_ABI_VER >>),
        OffCipher - 1, << cipher >>),
        OffFlags - 1, << flags >>),
        OffKpLen - 1, HostStore16(kp_len)),
        OffIvLen - 1, htobe16(iv_len))

\* The record of rvault_init before the HMAC is copied in: calloc, the header
\* fields, the IV, the KDF parameters and the UID.
InitRecord(cipher, flags, iv, kp, uid) ==
    PutCells(
        PutKp(
            PutIv(
                InitFields(Zeros(RVAULT_HDR_LEN + Len(iv) + Len(kp) + HMAC_SHA3_256_BUFLEN),
                           cipher, flags, Len(iv), Len(kp)),
                iv),
            kp),
        OffUid - 1, uid)

\* The accesses of rvault_hmac_compute and of the memcpy of the HMAC stay
\* inside a buffer of n bytes.
HmacInBounds(h, n) == RVAULT_HDR_TO_HMAC(h) + HMAC_SHA3_256_BUFLEN <= n

\* rvault_hmac_compute: the digest of the first RVAULT_HMAC_DATALEN bytes,
\* keyed by the key installed in the crypto object.
rvault_hmac_compute_nokey(key, h) ==
    hmac_sha3_256(NoKey, GetCells(h, 0, RVAULT_HMAC_DATALEN(h)))

rvault_hmac_compute_hdronly(key, h) == hmac_sha3_256(key, GetCells(h, 0, RVAULT_HDR_LEN))

rvault_hmac_compute(key, h) == hmac_sha3_256(key, GetCells(h, 0, RVAULT_HMAC_DATALEN(h)))

\* What rvault_init keeps of the result of rvault_key_set.
Registered(reg) ==
    [ret |-> reg.ret, step |-> "key_set", key |-> reg.key, server |-> reg.server,
     asked |-> TRUE]

\* The registration of rvault_init: nothing with NOAUTH; else the server URL
\* is required and rvault_key_set posts the wrapped key.  asked: the server
\* was asked.  (First, a registration that does not look at the NOAUTH flag,
\* and one that does not require the URL.)
InitRegister_noauthignored(srv, a, uid, kpkey, e) ==
    IF a.server = "NULL"
    THEN [ret |-> -1, step |-> "server_url", key |-> kpkey, server |-> srv,
          asked |-> FALSE]
    ELSE Registered(rvault_key_set(srv, uid, kpkey, RandomKey(e.ke), e.fault # "key_set"))

InitRegister_nourlcheck(srv, a, uid, kpkey, e) ==
    IF NoAuth(a.flags)
    THEN [ret |-> 0, step |-> "", key |-> kpkey, server |-> srv, asked |-> FALSE]
    ELSE Registered(rvault_key_set(srv, uid, kpkey, RandomKey(e.ke), e.fault # "key_set"))

InitRegister(srv, a, uid, kpkey, e) ==
    IF NoAuth(a.flags)
    THEN [ret |-> 0, step |-> "", key |-> kpkey, server |-> srv, asked |-> FALSE]
    ELSE IF a.server = "NULL"
    THEN [ret |-> -1, step |-> "server_url", key |-> kpkey, server |-> srv,
          asked |-> FALSE]
    ELSE Registered(rvault_key_set(srv, uid, kpkey, RandomKey(e.ke), e.fault # "key_set"))

\* What rvault_init has when it reaches the metadata file, or where it failed.
Prepared(ok, step, srv, crypto, key, asked, rec, mac) ==
    [ok |-> ok, step |-> step, server |-> srv, crypto |-> crypto, key |-> key,
     asked |-> asked, rec |-> rec, mac |-> mac]

\* rvault_init from the registration (reg) to the record with its HMAC.
\* Where the HMAC lies outside the record, computing and copying it reads and
\* writes outside the allocation: the process dies, or goes on with the record
\* as it is.
InitSeal(reg, hdr, e) ==
    IF reg.ret = -1
    THEN Prepared(FALSE, reg.step, reg.server, "destroyed", NoKey, reg.asked, << >>, NoMac)
    ELSE IF ~HmacInBounds(hdr, Len(hdr)) /\ e.ub = "abort"
    THEN Prepared(FALSE, "killed", reg.server, "live", NoKey, reg.asked, << >>, NoMac)
    ELSE IF e.fault = "hmac"
    THEN Prepared(FALSE, "hmac", reg.server, "destroyed", NoKey, reg.asked, << >>, NoMac)
    ELSE Prepared(TRUE, "hmac", reg.server, "live", reg.key, reg.asked,
                  PutHmac(hdr, MacCells), rvault_hmac_compute(reg.key, hdr))

\* rvault_init once the cipher is known and the crypto object exists: the IV,
\* the KDF parameters, K_p, the record, the UID, the registration, the HMAC.
InitBuild(srv, a, e, cipher, kp, uid) ==
    IF e.fault \in {"gen_iv", "set_iv", "kdf_params", "passphrasekey", "calloc"}
    THEN Prepared(FALSE, e.fault, srv, "destroyed", NoKey, FALSE, << >>, NoMac)
    ELSE IF uid.isNull \/ Len(uid.buf) # UidLen
    THEN Prepared(FALSE, "uid", srv, "destroyed", NoKey, FALSE, << >>, NoMac)
    ELSE InitSeal(InitRegister(srv, a, uid.buf, PassphraseKey(a.pwd, kp), e),
                  InitRecord(cipher, a.flags, GenIv(cipher), kp, uid.buf), e)

\* rvault_init up to the record with its HMAC.
\* a: the arguments; e: the environment (fault, kp_len, ke, short, ub).
InitCipher(a) ==
    IF a.cipher_str = "NULL" THEN CRYPTO_CIPHER_PRIMARY
    ELSE crypto_cipher_id(a.cipher_str)

InitPrepare(srv, a, e) ==
    IF InitCipher(a) = CIPHER_NONE
    THEN Prepared(FALSE, "cipher", srv, "none", NoKey, FALSE, << >>, NoMac)
    ELSE IF e.fault = "crypto_create"
    THEN Prepared(FALSE, "crypto_create", srv, "none", NoKey, FALSE, << >>, NoMac)
    ELSE InitBuild(srv, a, e, InitCipher(a), GenKp(e.kp_len),
                   hex_read_arbitrary_buf(a.uid_str))

\* The end of rvault_init: the metadata file is created (o: what
\* open_metadata returned) and the record written, synced and closed.
\* (First, one that returns at once when the file cannot be created.)
InitStore_return(d, p, o, e) ==
    IF ~p.ok
    THEN InitRes(-1, p.step, d, p.server, p.crypto, NoKey, p.asked)
    ELSE IF o.fd = -1
    THEN InitRes(-1, "open", o.disk, p.server, p.crypto, NoKey, p.asked)
    ELSE IF e.fault = "write"
    THEN InitRes(-1, "write", fs_write(o.disk, p.rec, p.mac, Min(e.short, Len(p.rec) - 1)),
                 p.server, "destroyed", NoKey, p.asked)
    ELSE InitRes(0, "done", fs_write(o.disk, p.rec, p.mac, Len(p.rec)),
                 p.server, "destroyed", p.key, p.asked)

InitStore(d, p, o, e) ==
    IF ~p.ok
    THEN InitRes(-1, p.step, d, p.server, p.crypto, NoKey, p.asked)
    ELSE IF o.fd = -1
    THEN InitRes(-1, "open", o.disk, p.server, "destroyed", NoKey, p.asked)
    ELSE IF e.fault = "write"
    THEN InitRes(-1, "write", fs_write(o.disk, p.rec, p.mac, Min(e.short, Len(p.rec) - 1)),
                 p.server, "destroyed", NoKey, p.asked)
    ELSE InitRes(0, "done", fs_write(o.disk, p.rec, p.mac, Len(p.rec)),
                 p.server, "destroyed", p.key, p.asked)

\* A rvault_init that creates the metadata file first.
InitStoreFirst(d, p, o, e) ==
    IF o.fd = -1
    THEN InitRes(-1, "open", o.disk, p.server, p.crypto, NoKey, p.asked)
    ELSE IF ~p.ok
    THEN InitRes(-1, p.step, o.disk, p.server, p.crypto, NoKey, p.asked)
    ELSE IF e.fault = "write"
    THEN InitRes(-1, "write", fs_write(o.disk, p.rec, p.mac, Min(e.short, Len(p.rec) - 1)),
                 p.server, "destroyed", NoKey, p.asked)
    ELSE InitRes(0, "done", fs_write(o.disk, p.rec, p.mac, Len(p.rec)),
                 p.server, "destroyed", p.key, p.asked)

rvault_init_openfirst(d, srv, a, e) ==
    InitStoreFirst(d, InitPrepare(srv, a, e),
                   open_metadata(d, a.path, {"O_CREAT", "O_EXCL", "O_WRONLY", "O_SYNC"},
                                 e.fault # "open"),
                   e)

rvault_init(d, srv, a, e) ==
    InitStore(d, InitPrepare(srv, a, e),
              open_metadata(d, a.path, {"O_CREAT", "O_EXCL", "O_WRONLY", "O_SYNC"},
                            e.fault # "open"),
              e)

-----------------------------------------------------------------------------
(* rvault_open *)

\* What the environment can make fail in rvault_open, one call at most per run
\* (the first failure ends the function).
OpenFaults == {"none", "open", "mmap", "calloc", "crypto_create", "set_iv",
               "passphrasekey", "key_get", "hmac"}

MsgNone == ""
MsgNoOpen == "could not open"
MsgCorrupted == "metadata file corrupted"
MsgVersion == "incompatible vault version"
MsgServerUrl == "please specify the server URL"
MsgVerify == "verification failed: invalid passphrase?"

NullVault == [isNull |-> TRUE, cipher |-> 0, server_url |-> "NULL", uid |-> << >>,
              key |-> NoKey, base_path |-> "NULL", file_list |-> << >>,
              file_count |-> 0, closing |-> FALSE]

\* open_metadata_mmap: the mapping (isNull when none), its message, and how
\* many descriptors it opened and closed.  o: what open_metadata returned.
MetadataMap(d, o, fault) ==
    IF o.fd = -1
    THEN [isNull |-> TRUE, step |-> "open", msg |-> MsgNoOpen, fdopened |-> 0,
          fdclosed |-> 0]
    ELSE IF Len(d.cells) < RVAULT_HDR_LEN
    THEN [isNull |-> TRUE, step |-> "short", msg |-> MsgCorrupted, fdopened |-> 1,
          fdclosed |-> 1]
    ELSE IF fault = "mmap"
    THEN [isNull |-> TRUE, step |-> "mmap", msg |-> MsgNone, fdopened |-> 1,
          fdclosed |-> 1]
    ELSE [isNull |-> FALSE, step |-> "mapped", msg |-> MsgNone, fdopened |-> 1,
          fdclosed |-> 1]

open_metadata_mmap(d, path, fault) ==
    MetadataMap(d, open_metadata(d, path, {"O_RDONLY"}, fault # "open"), fault)

\* rvault_open_hdr after its two checks: the vault object with its crypto
\* object and the IV set, no key installed yet.
OpenHdrBuild(h, srvurl, fault) ==
    IF fault = "calloc"
    THEN [vault |-> NullVault, step |-> "calloc", msg |-> MsgNone, vclosed |-> 0]
    ELSE IF fault = "crypto_create" \/ ~ValidCipher(h[OffCipher])
    THEN [vault |-> NullVault, step |-> "crypto_create", msg |-> MsgNone, vclosed |-> 1]
    ELSE IF fault = "set_iv" \/ HdrIvLen(h) # CipherIvLen[h[OffCipher]]
    THEN [vault |-> NullVault, step |-> "set_iv", msg |-> MsgNone, vclosed |-> 1]
    ELSE [vault |-> [isNull |-> FALSE, cipher |-> h[OffCipher], server_url |-> srvurl,
                     uid |-> GetCells(h, OffUid - 1, UidLen), key |-> NoKey,
                     base_path |-> "NULL", file_list |-> << >>, file_count |-> 0,
                     closing |-> FALSE],
          step |-> "hdr", msg |-> MsgNone, vclosed |-> 0]

\* rvault_open_hdr: isNull with the step and the message when the header is
\* refused.
rvault_open_hdr_nolen(h, srvurl, file_len, fault) ==
    IF h[OffVer] # RVAULT_ABI_VER
    THEN [vault |-> NullVault, step |-> "version", msg |-> MsgVersion, vclosed |-> 0]
    ELSE OpenHdrBuild(h, srvurl, fault)

rvault_open_hdr(h, srvurl, file_len, fault) ==
    IF h[OffVer] # RVAULT_ABI_VER
    THEN [vault |-> NullVault, step |-> "version", msg |-> MsgVersion, vclosed |-> 0]
    ELSE IF RVAULT_FILE_LEN(h) # file_len
    THEN [vault |-> NullVault, step |-> "length", msg |-> MsgCorrupted, vclosed |-> 0]
    ELSE OpenHdrBuild(h, srvurl, fault)

\* rvault_hmac_verify: memcmp of the stored HMAC with the computed one.
\* The stored cells are the bytes of the digest mac exactly when they are its
\* cells in order, none shifted.
rvault_hmac_verify_always(key, h, mac, fault) == IF fault = "hmac" THEN -1 ELSE 0

HmacEqual(hmac_rec, hmac_comp, mac) ==
    IF hmac_rec = MacCells /\ mac = hmac_comp THEN 0 ELSE -1

rvault_hmac_verify(key, h, mac, fault) ==
    IF fault = "hmac" THEN -1
    ELSE HmacEqual(GetCells(h, RVAULT_HDR_TO_HMAC(h), HMAC_SHA3_256_BUFLEN),
                   rvault_hmac_compute(key, h), mac)

\* The result of rvault_open: the handle (isNull when none), the step it ended
\* at, the message logged, and what it did on the way: derived (K_p derived),
\* asked (server asked for the key), verified (HMAC compared and equal),
\* unmaps (safe_munmap calls), vclosed (rvault_close calls), oob (the KDF
\* parameters read reach past the mapping).
OpenRes(v, step, msg, derived, asked, verified, unmaps, vclosed, oob) ==
    [vault |-> v, step |-> step, msg |-> msg, derived |-> derived, asked |-> asked,
     verified |-> verified, unmaps |-> unmaps, vclosed |-> vclosed, oob |-> oob,
     fdopened |-> 0, fdclosed |-> 0, mapped |-> FALSE, hdr_oob |-> FALSE]

\* rvault_open from the HMAC verification on; got: the key to install.
\* (First, one that returns the handle without the safe_munmap.)
OpenVerify_nomunmap(d, a, e, v, got, noauth, oob) ==
    IF got.ret = -1
    THEN OpenRes(NullVault, "key_get", MsgNone, TRUE, TRUE, FALSE, 1, 1, oob)
    ELSE IF rvault_hmac_verify(got.key, d.cells, d.mac, e.fault) # 0
    THEN OpenRes(NullVault, "verify", MsgVerify, TRUE, ~noauth, FALSE, 1, 1, oob)
    ELSE OpenRes([v EXCEPT !.key = got.key, !.base_path = a.path],
                 "done", MsgNone, TRUE, ~noauth, TRUE, 0, 0, oob)

OpenVerify(d, a, e, v, got, noauth, oob) ==
    IF got.ret = -1
    THEN OpenRes(NullVault, "key_get", MsgNone, TRUE, TRUE, FALSE, 1, 1, oob)
    ELSE IF rvault_hmac_verify(got.key, d.cells, d.mac, e.fault) # 0
    THEN OpenRes(NullVault, "verify", MsgVerify, TRUE, ~noauth, FALSE, 1, 1, oob)
    ELSE OpenRes([v EXCEPT !.key = got.key, !.base_path = a.path],
                 "done", MsgNone, TRUE, ~noauth, TRUE, 1, 0, oob)

\* rvault_open from the derivation of K_p on; kp_len is hdr->kp_len as the
\* host reads it, kpkey the key derived from the passphrase.
OpenKey(d, srv, a, e, v, kpkey, noauth, oob) ==
    IF e.fault = "passphrasekey"
    THEN OpenRes(NullVault, "passphrasekey", MsgNone, FALSE, FALSE, FALSE, 1, 1, oob)
    ELSE IF ~noauth /\ a.server = "NULL"
    THEN OpenRes(NullVault, "server_url", MsgServerUrl, TRUE, FALSE, FALSE, 1, 1, oob)
    ELSE OpenVerify(d, a, e, v,
                    IF noauth THEN [ret |-> 0, key |-> kpkey]
                    ELSE rvault_key_get(srv, v.uid, kpkey,
                                        e.auth /\ e.fault # "key_get", e.junk),
                    noauth, oob)

OpenKdf(d, srv, a, e, v, kp_len) ==
    OpenKey(d, srv, a, e, v,
            PassphraseKey(a.pwd, GetCells(d.cells, RVAULT_HDR_TO_KP(d.cells), kp_len)),
            NoAuth(d.cells[OffFlags]),
            RVAULT_HDR_TO_KP(d.cells) + kp_len > Len(d.cells))

\* The reads rvault_open_hdr makes before its length check has passed reach
\* outside the file_len bytes it was given: the version byte, and (the
\* version accepted) the two length fields.  Once the length check has passed,
\* cipher, UID and IV lie inside.
OpenHdrOob(h, file_len) ==
    \/ file_len < OffVer
    \/ h[OffVer] = RVAULT_ABI_VER /\ file_len < OffKpLen + 1

\* rvault_open once the file is mapped; oh: what rvault_open_hdr returned.
OpenMapped(d, srv, a, e, oh) ==
    IF oh.vault.isNull
    THEN OpenRes(NullVault, oh.step, oh.msg, FALSE, FALSE, FALSE, 1, oh.vclosed, FALSE)
    ELSE OpenKdf(d, srv, a, e, oh.vault, HostLoad16(Field16(d.cells, OffKpLen)))

\* The descriptor and the mapping of open_metadata_mmap in the result.
OpenWithMap(res, m, hdr_oob) ==
    [res EXCEPT !.fdopened = m.fdopened, !.fdclosed = m.fdclosed,
                !.mapped = ~m.isNull, !.hdr_oob = hdr_oob]

\* m: what open_metadata_mmap returned.
OpenMap(d, srv, a, e, m) ==
    IF m.isNull
    THEN OpenWithMap(OpenRes(NullVault, m.step, m.msg, FALSE, FALSE, FALSE, 0, 0, FALSE),
                     m, FALSE)
    ELSE OpenWithMap(OpenMapped(d, srv, a, e,
                         rvault_open_hdr(d.cells, a.server, Len(d.cells), e.fault)),
                     m, OpenHdrOob(d.cells, Len(d.cells)))

\* a: the arguments (path, server, pwd); e: the environment (fault, auth, junk).
rvault_open(d, srv, a, e) ==
    OpenMap(d, srv, a, e, open_metadata_mmap(d, a.path, e.fault))

-----------------------------------------------------------------------------
(* rvault_open_ekey *)

Fill(n, v) == SubSeq([i \in 1..n |-> v], 1, n)

\* The memory rvault_open_hdr reads as the header when it is given buf: the
\* buffer, and past its end whatever lies there (bytes of value beyond).
Mem(buf, beyond) ==
    IF Len(buf) >= RVAULT_HDR_LEN THEN buf
    ELSE buf \o Fill(RVAULT_HDR_LEN - Len(buf), beyond)

\* The result of rvault_open_ekey: the handle, the step it ended at ("killed":
\* the process died of a read outside the METADATA section), the message, the
\* rvault_close calls, and whether rvault_open_hdr read outside the section.
EkeyRes(v, step, msg, vclosed, hdr_oob) ==
    [vault |-> v, step |-> step, msg |-> msg, vclosed |-> vclosed, hdr_oob |-> hdr_oob]

\* crypto_set_key and what follows; v: the vault object of rvault_open_hdr.
\* (First, one that returns the vault object although the key was refused.)
EkeySetKey_keep(a, e, v, hdr_oob) ==
    IF e.fault = "set_key" \/ a.ekey.kind = "none"
    THEN EkeyRes([v EXCEPT !.base_path = a.path], "set_key", MsgNone, 0, hdr_oob)
    ELSE EkeyRes([v EXCEPT !.key = a.ekey, !.base_path = a.path], "done", MsgNone, 0,
                 hdr_oob)

EkeySetKey(a, e, v, hdr_oob) ==
    IF e.fault = "set_key" \/ a.ekey.kind = "none"
    THEN EkeyRes(NullVault, "set_key", MsgNone, 1, hdr_oob)
    ELSE EkeyRes([v EXCEPT !.key = a.ekey, !.base_path = a.path], "done", MsgNone, 0,
                 hdr_oob)

\* oh: what rvault_open_hdr returned.
EkeyHdr(a, e, oh, hdr_oob) ==
    IF oh.vault.isNull
    THEN EkeyRes(NullVault, oh.step, oh.msg, oh.vclosed, hdr_oob)
    ELSE EkeySetKey(a, e, oh.vault, hdr_oob)

\* a: the path and the sections of the recovery file (meta: METADATA, ekey:
\* EKEY); e: the environment (fault, ub, beyond).  A read outside the METADATA
\* section kills the process or finds the bytes that lie there.
rvault_open_ekey(a, e) ==
    IF e.fault \in {"fopen", "import"}
    THEN EkeyRes(NullVault, e.fault, IF e.fault = "fopen" THEN MsgNoOpen ELSE MsgNone,
                 0, FALSE)
    ELSE IF ~get_vault_path(a.path)
    THEN EkeyRes(NullVault, "path", MsgNone, 0, FALSE)
    ELSE IF OpenHdrOob(Mem(a.meta, e.beyond), Len(a.meta)) /\ e.ub = "abort"
    THEN EkeyRes(NullVault, "killed", MsgNone, 0, TRUE)
    ELSE EkeyHdr(a, e,
                 rvault_open_hdr(Mem(a.meta, e.beyond), "NULL", Len(a.meta), e.fault),
                 OpenHdrOob(Mem(a.meta, e.beyond), Len(a.meta)))

-----------------------------------------------------------------------------
(* rvault_close *)

\* fileobj_open: the new file object is put at the head of the vault's list.
fileobj_open(v, fobj) ==
    [v EXCEPT !.file_list = << fobj >> \o v.file_list, !.file_count = v.file_count + 1]

\* fileobj_close: the file object takes itself off the vault's list.
fileobj_close(v, fobj) ==
    [v EXCEPT !.file_list = SelectSeq(v.file_list, LAMBDA f : f # fobj),
              !.file_count = v.file_count - Cardinality({i \in 1..Len(v.file_list) :
                                                          v.file_list[i] = fobj})]

\* LIST_FIRST(&vault->file_list) != NULL
LIST_FIRST_NotNull(v) == v.file_list # << >>

\* rvault_close_files: while the list has a first object, close it.
RECURSIVE rvault_close_files(_)
rvault_close_files(v) ==
    IF LIST_FIRST_NotNull(v)
    THEN rvault_close_files(fileobj_close(v, Head(v.file_list)))
    ELSE v

\* The end of rvault_close, v being the vault after rvault_close_files: the
\* ASSERT, then base_path freed, the crypto object destroyed, the vault freed.
\* asserted: the ASSERT held (the process is aborted when it does not); left:
\* the file objects still on the list when the vault was freed.
CloseEnd(v) ==
    [vault |-> NullVault, asserted |-> (v.file_count = 0), left |-> Len(v.file_list),
     crypto |-> "destroyed"]

rvault_close(v) == CloseEnd(rvault_close_files(v))

-----------------------------------------------------------------------------
(* rvault_iter_dir *)

\* File names are sequences of characters.
RVAULT_META_PREF == << "r", "v", "a", "u", "l", "t", "." >>
RVAULT_META_FILE == RVAULT_META_PREF \o << "m", "e", "t", "a", "d", "a", "t", "a" >>

NameDot == << "." >>
NameDotDot == << ".", "." >>

\* strncmp(vname, pref, Len(pref)) == 0
HasPrefix(vname, pref) ==
    Len(vname) >= Len(pref) /\ SubSeq(vname, 1, Len(pref)) = pref

\* The logical character a stored character stands for.
LogicalChar(ch) == CASE ch = "A" -> "a" [] ch = "B" -> "b" [] OTHER -> ch

\* rvault_resolve_vname: the logical name of a stored name; isNull for the
\* stored names (bad) that do not resolve.
rvault_resolve_vname(vname, bad) ==
    IF vname \in bad THEN [isNull |-> TRUE, name |-> << >>]
    ELSE [isNull |-> FALSE, name |-> [i \in 1..Len(vname) |-> LogicalChar(vname[i])]]

\* An invocation of the callback: the name it is given and the directory
\* entry (its position in the order of readdir).
IterCall(name, dp) == [name |-> name, dp |-> dp]

\* The entries the loop passes over without a word: dot files and the files
\* of the metadata prefix.  (First, one that knows of dot files only.)
IterSkips_dotonly(vname) == vname[1] = "."

IterSkips(vname) == vname[1] = "." \/ HasPrefix(vname, RVAULT_META_PREF)

\* The loop of rvault_iter_dir from entry i on; calls: the invocations so far.
RECURSIVE IterLoop(_, _, _, _)
IterLoop(dir, bad, i, calls) ==
    IF i > Len(dir) THEN [ret |-> 0, calls |-> calls]
    ELSE IF dir[i] = NameDot \/ dir[i] = NameDotDot
    THEN IterLoop(dir, bad, i + 1, Append(calls, IterCall(dir[i], i)))
    ELSE IF IterSkips(dir[i])
    THEN IterLoop(dir, bad, i + 1, calls)
    ELSE IF rvault_resolve_vname(dir[i], bad).isNull
    THEN [ret |-> -1, calls |-> calls]
    ELSE IterLoop(dir, bad, i + 1,
                  Append(calls, IterCall(rvault_resolve_vname(dir[i], bad).name, i)))

\* rvault_iter_dir over the directory dir (its entries in the order of
\* readdir); fault: rvault_resolve_path or opendir failing.
rvault_iter_dir(dir, bad, fault) ==
    IF fault \in {"resolve_path", "opendir"} THEN [ret |-> -1, calls |-> << >>]
    ELSE IterLoop(dir, bad, 1, << >>)

-----------------------------------------------------------------------------
(* The state machine. *)

Passphrases == {"pw", "wp"}
ServerUrls == {"NULL", "https://api.example.org"}
CipherStrs == {"NULL", "chacha20-poly1305", "rot13"}
Flags == {0, RVAULT_FLAG_NOAUTH}

\* UID strings: a UUID in hex, a hex string that is too short, a string that
\* is no hex.
GoodUid == [i \in 1..(2 * UidLen) |-> IF i % 2 = 1 THEN 10 ELSE (i \div 2) % 16]
ShortUid == << 10, 1, 11, 2 >>
BadUid == [i \in 1..(2 * UidLen) |-> IF i = 5 THEN 16 ELSE 1]
UidStrs == {GoodUid, ShortUid, BadUid}

\* The inputs of one rvault_init, arguments a and environment e, in two
\* families.  Early: every cipher, UID, server and flag with each failure
\* before the record is built (and with none).  Late: every path, server,
\* passphrase and flag with each failure from the registration on (and with
\* none), for every length of the KDF parameters.  e.ub is what an access
\* outside the record does (only a host whose byte order makes the access
\* leave the record has the choice); e.short is how many bytes a failing write
\* has written.
EarlyFaults == {"none", "crypto_create", "gen_iv", "set_iv", "kdf_params",
                "passphrasekey", "calloc"}

LateFaults == {"none", "key_set", "hmac", "open", "write"}

InitCases ==
    { [a |-> x, e |-> y] :
        x \in [path : {"vault"}, server : ServerUrls, pwd : {"pw"},
               uid_str : UidStrs, cipher_str : CipherStrs, flags : Flags],
        y \in [fault : EarlyFaults, kp_len : {1}, short : {RVAULT_HDR_LEN},
               ub : {"continue"}] }
    \cup
    { [a |-> x, e |-> y] :
        x \in [path : Paths, server : ServerUrls, pwd : Passphrases,
               uid_str : {GoodUid}, cipher_str : {"NULL"}, flags : Flags],
        y \in [fault : LateFaults, kp_len : 1..MaxKpLen, short : {RVAULT_HDR_LEN},
               ub : IF bigEndian THEN {"continue"} ELSE {"continue", "abort"}] }

OpenArgs == [path : Paths, server : ServerUrls, pwd : Passphrases]

\* The environment of one rvault_open: one call failing, or the server
\* refusing the token, or a decryption under the wrong key yielding a key.
OpenEnvs ==
    { e \in [fault : OpenFaults, auth : BOOLEAN, junk : BOOLEAN] :
        /\ (e.fault # "none" => (e.auth /\ ~e.junk))
        /\ ~(~e.auth /\ e.junk) }

NoOrigin == [valid |-> FALSE, pwd |-> "", key |-> NoKey, ks |-> NoWrapped,
             flags |-> 0, file |-> NoFile]

\* The log of an operation, the same fields for every operation.
Log(op, ret, step, msg) ==
    [op |-> op, ret |-> ret, step |-> step, msg |-> msg, pwd |-> "",
     srvurl |-> "NULL", flags |-> 0, clean |-> TRUE, existed |-> disk.exists,
     derived |-> FALSE, asked |-> FALSE, verified |-> FALSE, unmaps |-> 0,
     vclosed |-> 0, crypto |-> "none", fdopened |-> 0, fdclosed |-> 0,
     mapped |-> FALSE, hdr_oob |-> FALSE, meta |-> << >>, ekey |-> NoKey,
     left |-> 0, dir |-> << >>, bad |-> {}, calls |-> << >>]

Init ==
    /\ bigEndian \in BOOLEAN
    /\ disk = NoFile
    /\ server = NoServer
    /\ vault = NullVault
    /\ last = [op |-> "none", ret |-> 0, step |-> "", msg |-> MsgNone, pwd |-> "",
               srvurl |-> "NULL", flags |-> 0, clean |-> TRUE, existed |-> FALSE,
               derived |-> FALSE, asked |-> FALSE, verified |-> FALSE, unmaps |-> 0,
               vclosed |-> 0, crypto |-> "none", fdopened |-> 0, fdclosed |-> 0,
               mapped |-> FALSE, hdr_oob |-> FALSE, meta |-> << >>, ekey |-> NoKey,
     left |-> 0, dir |-> << >>, bad |-> {}, calls |-> << >>]
    /\ origin = NoOrigin
    /\ ninit = 0

\* The caller runs rvault_init: on the fresh directory, and once more over the
\* file a first run has just created.  (rvault_init reads nothing of a handle
\* or of earlier opens.)
DoInit ==
    /\ vault.isNull
    /\ \/ last.op = "none"
       \/ last.op = "init" /\ ~last.existed /\ disk.exists
    /\ \E c \in InitCases :
       \E r \in {rvault_init(disk, server, c.a,
                             [fault |-> c.e.fault, kp_len |-> c.e.kp_len,
                              short |-> c.e.short, ub |-> c.e.ub, ke |-> ninit + 1])} :
            /\ disk' = r.disk
            /\ server' = r.server
            /\ last' = [Log("init", r.ret, r.step, MsgNone) EXCEPT
                          !.srvurl = c.a.server, !.flags = c.a.flags,
                          !.asked = r.asked, !.crypto = r.crypto]
            /\ origin' = IF r.ret = 0
                         THEN [valid |-> TRUE, pwd |-> c.a.pwd, key |-> r.key,
                               ks |-> IF NoAuth(c.a.flags) THEN NoWrapped ELSE r.server.ks,
                               flags |-> c.a.flags, file |-> r.disk]
                         ELSE IF r.disk = disk THEN origin ELSE NoOrigin
    /\ ninit' = ninit + 1
    /\ UNCHANGED <<bigEndian, vault>>

\* The caller runs rvault_open and keeps the handle it returns.  A second
\* rvault_init ends the exploration; an open right after a failed open would
\* only repeat it.
DoOpen ==
    /\ vault.isNull
    /\ ninit <= 1
    /\ last.op \notin {"open", "open_ekey"}
    /\ \E a \in OpenArgs, e \in OpenEnvs :
       \E r \in {rvault_open(disk, server, a, e)} :
            /\ vault' = r.vault
            /\ last' = [Log("open", IF r.vault.isNull THEN -1 ELSE 0, r.step, r.msg) EXCEPT
                          !.pwd = a.pwd, !.srvurl = a.server,
                          !.clean = (e.fault = "none" /\ e.auth /\ a.path = "vault"),
                          !.derived = r.derived, !.asked = r.asked,
                          !.verified = r.verified, !.unmaps = r.unmaps,
                          !.vclosed = r.vclosed, !.fdopened = r.fdopened,
                          !.fdclosed = r.fdclosed, !.mapped = r.mapped,
                          !.hdr_oob = r.hdr_oob]
    /\ UNCHANGED <<bigEndian, disk, server, origin, ninit>>

\* The METADATA section of a recovery file: the metadata file the last
\* successful rvault_init wrote, whole, with its last byte changed, or cut;
\* or a few bytes of no vault.
Cut(c, n) == SubSeq(c, 1, Min(n, Len(c)))

RecoveryMetas ==
    IF origin.valid
    THEN {Cut(origin.file.cells, n) : n \in {0, 1, OffKpLen, OffKpLen + 1,
                                             RVAULT_HDR_LEN - 1, Len(origin.file.cells)}}
         \cup {Cut(origin.file.cells, Len(origin.file.cells) - 1) \o << 0 >>}
    ELSE {Fill(n, RVAULT_ABI_VER) : n \in {0, 1, OffKpLen + 1}}

\* The EKEY section: the key of that rvault_init, or an empty section.
RecoveryKeys == {IF origin.valid THEN origin.key ELSE RandomKey(0), NoKey}

EkeyFaults == {"none", "fopen", "import", "calloc", "crypto_create", "set_iv", "set_key"}

EkeyEnvs ==
    { e \in [fault : EkeyFaults, ub : {"continue", "abort"},
             beyond : {0, RVAULT_ABI_VER}] :
        e.fault # "none" => (e.ub = "continue" /\ e.beyond = 0) }

\* The caller runs rvault_open_ekey with a recovery file and keeps the handle
\* it returns.
DoOpenEkey ==
    /\ vault.isNull
    /\ ninit <= 1
    /\ last.op \in {"none", "init"}
    /\ \E path \in Paths, meta \in RecoveryMetas, ekey \in RecoveryKeys, e \in EkeyEnvs :
       \E r \in {rvault_open_ekey([path |-> path, meta |-> meta, ekey |-> ekey], e)} :
            /\ vault' = r.vault
            /\ last' = [Log("open_ekey", IF r.vault.isNull THEN -1 ELSE 0, r.step, r.msg)
                          EXCEPT !.clean = (e.fault = "none" /\ path = "vault"),
                                 !.vclosed = r.vclosed, !.hdr_oob = r.hdr_oob,
                                 !.meta = meta, !.ekey = ekey]
    /\ UNCHANGED <<bigEndian, disk, server, origin, ninit>>

\* The file objects a caller may have open.
FileObjs == 1..MaxFiles

\* The caller opens a file object in the vault (fileobj_open), or closes one
\* (fileobj_close).
DoFileOpen ==
    /\ ~vault.isNull /\ ~vault.closing
    /\ vault.file_count < MaxFiles
    /\ \E fobj \in FileObjs :
        /\ \A i \in 1..Len(vault.file_list) : vault.file_list[i] # fobj
        /\ vault' = fileobj_open(vault, fobj)
    /\ last' = Log("fileobj_open", 0, "done", MsgNone)
    /\ UNCHANGED <<bigEndian, disk, server, origin, ninit>>

DoFileClose ==
    /\ ~vault.isNull /\ ~vault.closing
    /\ \E i \in 1..Len(vault.file_list) :
        vault' = fileobj_close(vault, vault.file_list[i])
    /\ last' = Log("fileobj_close", 0, "done", MsgNone)
    /\ UNCHANGED <<bigEndian, disk, server, origin, ninit>>

\* The names a vault directory may hold: the two links, a dot file, the
\* metadata file, a name that is a proper beginning of the metadata prefix, and
\* stored names of files.
DirNames == {NameDot, NameDotDot, << ".", "h" >>, RVAULT_META_FILE, << "r", "v" >>,
             << "A" >>, << "B" >>}

\* The stored names that may fail to resolve.
BadNames == {<< "B" >>, << "r", "v" >>}

\* A directory as readdir returns it: its entries, each once, in some order.
Dirs ==
    UNION { { d \in [1..n -> DirNames] : \A i, j \in 1..n : d[i] = d[j] => i = j } :
            n \in 0..MaxDirEntries }

IterFaults == {"none", "resolve_path", "opendir"}

\* The caller enumerates a directory of the open vault.
DoIterDir ==
    /\ ~vault.isNull /\ ~vault.closing
    /\ last.op \in {"open", "open_ekey"}
    /\ \E dir \in Dirs, bad \in SUBSET BadNames, fault \in IterFaults :
        /\ fault # "none" => bad = {}
        /\ \E r \in {rvault_iter_dir(dir, bad, fault)} :
            last' = [Log("iter", r.ret, fault, MsgNone) EXCEPT
                       !.dir = dir, !.bad = bad, !.calls = r.calls]
    /\ UNCHANGED <<bigEndian, disk, server, vault, origin, ninit>>

\* rvault_close: the file objects are closed, the key is destroyed with the
\* crypto object, the handle freed.
DoClose ==
    /\ ~vault.isNull /\ ~vault.closing
    /\ \E r \in {rvault_close(vault)} :
        /\ vault' = r.vault
        /\ last' = [Log("close", IF r.asserted THEN 0 ELSE -1, "done", MsgNone) EXCEPT
                      !.vclosed = 1, !.crypto = r.crypto, !.left = r.left]
    /\ UNCHANGED <<bigEndian, disk, server, origin, ninit>>

\* rvault_close step by step: the call, one turn of the loop of
\* rvault_close_files, and the rest of rvault_close once the loop has ended.
CloseCall ==
    /\ ~vault.isNull /\ ~vault.closing
    /\ vault' = [vault EXCEPT !.closing = TRUE]
    /\ last' = Log("closing", 0, "call", MsgNone)
    /\ UNCHANGED <<bigEndian, disk, server, origin, ninit>>

CloseLoop ==
    /\ ~vault.isNull /\ vault.closing
    /\ LIST_FIRST_NotNull(vault)
    /\ vault' = fileobj_close(vault, Head(vault.file_list))
    /\ last' = Log("closing", 0, "loop", MsgNone)
    /\ UNCHANGED <<bigEndian, disk, server, origin, ninit>>

\* (First, a rvault_close_files that may return while the list has objects.)
CloseReturn_noloop ==
    /\ ~vault.isNull /\ vault.closing
    /\ \E r \in {CloseEnd(vault)} :
        /\ vault' = r.vault
        /\ last' = [Log("close", IF r.asserted THEN 0 ELSE -1, "done", MsgNone) EXCEPT
                      !.vclosed = 1, !.crypto = r.crypto, !.left = r.left]
    /\ UNCHANGED <<bigEndian, disk, server, origin, ninit>>

CloseReturn ==
    /\ ~vault.isNull /\ vault.closing
    /\ ~LIST_FIRST_NotNull(vault)
    /\ \E r \in {CloseEnd(vault)} :
        /\ vault' = r.vault
        /\ last' = [Log("close", IF r.asserted THEN 0 ELSE -1, "done", MsgNone) EXCEPT
                      !.vclosed = 1, !.crypto = r.crypto, !.left = r.left]
    /\ UNCHANGED <<bigEndian, disk, server, origin, ninit>>

\* By how much (modulo 256) the byte is changed.
Deltas == {1, 2, 128, 255}

\* Something outside the program changes one byte of the metadata file that
\* rvault_init has just written.
Tamper ==
    /\ last.op = "init" /\ last.ret = 0 /\ ninit = 1 /\ disk = origin.file
    /\ \E i \in 1..Len(disk.cells), dl \in Deltas :
        LET c == disk.cells[i]
            c2 == ((c \div 256) * 256) + (((c % 256) + dl) % 256)
        IN  disk' = [disk EXCEPT !.cells[i] = c2]
    /\ last' = Log("tamper", 0, "done", MsgNone)
    /\ UNCHANGED <<bigEndian, server, vault, origin, ninit>>

\* Something outside the program cuts the metadata file or extends it.
Resize ==
    /\ last.op = "init" /\ ninit = 1 /\ disk.exists
    /\ \E n \in {0, RVAULT_HDR_LEN - 1, RVAULT_HDR_LEN, Len(disk.cells) - 1,
                 Len(disk.cells) + 1} :
        /\ n >= 0 /\ n # Len(disk.cells)
        /\ disk' = FileOf(SubSeq(disk.cells \o << 0 >>, 1, n), disk.mac)
    /\ last' = Log("resize", 0, "done", MsgNone)
    /\ UNCHANGED <<bigEndian, server, vault, origin, ninit>>

Next ==
    DoInit \/ DoOpen \/ DoOpenEkey \/ DoIterDir \/ DoFileOpen \/ DoFileClose \/ DoClose
    \/ Resize

\* The program, and a file that is cut or extended behind its back.
Spec == Init /\ [][Next]_vars

NextTamper ==
    DoInit \/ DoOpen \/ DoOpenEkey \/ DoIterDir \/ DoFileOpen \/ DoFileClose \/ DoClose
    \/ Resize \/ Tamper

\* The same, and a file of which one byte is changed behind its back.
TamperSpec == Init /\ [][NextTamper]_vars

NextClose ==
    DoInit \/ DoOpen \/ DoOpenEkey \/ DoFileOpen \/ DoFileClose
    \/ CloseCall \/ CloseLoop \/ CloseReturn

\* The program with rvault_close taken step by step.  The thread that called
\* rvault_close runs on: a turn of the loop that can be taken is taken, and
\* the function returns when the loop has ended.
CloseSpec == Init /\ [][NextClose]_vars /\ WF_vars(CloseLoop) /\ WF_vars(CloseReturn)

-----------------------------------------------------------------------------
(* Properties. *)

\* The step taken is a run of rvault_init.
InitStep == ninit' # ninit

\* The metadata file is the one the last successful rvault_init wrote.
Pristine == origin.valid /\ disk = origin.file

\* The positions where the metadata file differs from the one rvault_init wrote.
ChangedCells ==
    IF Len(disk.cells) # Len(origin.file.cells) THEN {}
    ELSE {i \in 1..Len(disk.cells) : disk.cells[i] # origin.file.cells[i]}

\* The metadata file is the one rvault_init wrote with exactly one byte changed.
OneByteChanged == origin.valid /\ disk.exists /\ Cardinality(ChangedCells) = 1

\* The bytes of the metadata file the HMAC covers, and the HMAC it stores.
FileData == GetCells(disk.cells, 0, Len(disk.cells) - HMAC_SHA3_256_BUFLEN)
FileHmac == GetCells(disk.cells, Len(disk.cells) - HMAC_SHA3_256_BUFLEN, HMAC_SHA3_256_BUFLEN)
FileKp == GetCells(disk.cells, RVAULT_HDR_TO_KP(disk.cells), HdrKpLenBE(disk.cells))

\* The metadata file is one rvault_open must refuse unread: shorter than the
\* aligned header, of another version, or of another length than its header
\* fields add up to.
BadMetadata ==
    /\ disk.exists
    /\ \/ Len(disk.cells) < RVAULT_HDR_LEN
       \/ disk.cells[OffVer] # RVAULT_ABI_VER
       \/ RVAULT_FILE_LEN(disk.cells) # Len(disk.cells)

\* C1: rvault_init over a directory whose metadata file already exists
\* returns failure and leaves the file as it was, whatever the flags, the
\* cipher and the passphrase.
C1_InitOverExistingFails ==
    [][(InitStep /\ disk.exists) => (last'.ret = -1 /\ disk' = disk)]_vars

C1_Witness ==
    /\ last.op = "init" /\ last.existed /\ last.ret = -1 /\ last.step = "open"
    /\ Pristine

\* C2: a rvault_init that fails at any step before the write of the record
\* leaves the vault directory as it was: no metadata file has been created.
C2_FailureBeforeWriteLeavesNoFile ==
    [][(InitStep /\ last'.ret = -1 /\ last'.step # "write") => disk' = disk]_vars

C2_Witness ==
    /\ last.op = "init" /\ last.ret = -1 /\ last.step = "key_set"
    /\ ~last.existed /\ ~disk.exists

\* C3: when rvault_init has created the metadata file and the write of the
\* record fails, no metadata file remains in the vault directory.
C3_FailedWriteRemovesFile ==
    (last.op = "init" /\ last.step = "write" /\ ~last.existed)
        => (last.ret = -1 /\ ~disk.exists)

\* C4: after a successful rvault_init with passphrase P, rvault_open of the
\* same directory with P (nothing failing, and in authenticated mode the
\* server URL given and the server holding the key init registered) returns a
\* handle whose key is the key init computed the HMAC with.
C4_RoundTrip ==
    (/\ last.op = "open" /\ Pristine
     /\ last.pwd = origin.pwd /\ last.clean
     /\ (NoAuth(origin.flags) \/ (last.srvurl # "NULL" /\ server.ks = origin.ks)))
        => (last.ret = 0 /\ ~vault.isNull /\ vault.key = origin.key)

\* C5: whenever rvault_open has returned a handle, the HMAC stored in the
\* metadata file is the HMAC of header region, IV and KDF parameters under the
\* key installed in the handle (K_p in NOAUTH mode, the key unwrapped from the
\* server's in authenticated mode), and the comparison was made.
C5_OpenImpliesAuthentic ==
    (last.op = "open" /\ ~vault.isNull) =>
        /\ last.ret = 0 /\ last.verified
        /\ FileHmac = MacCells
        /\ disk.mac = hmac_sha3_256(vault.key, FileData)
        /\ vault.key = IF NoAuth(disk.cells[OffFlags])
                       THEN PassphraseKey(last.pwd, FileKp)
                       ELSE server.ks.ke

C5_Witness ==
    /\ ~vault.isNull /\ last.op = "open" /\ ~NoAuth(disk.cells[OffFlags])
    /\ vault.key = server.ks.ke /\ vault.key.kind = "Ke"

\* C6: rvault_open of a vault initialised with passphrase P, with another
\* passphrase, fails and leaves the caller without a handle.
C6_WrongPassphraseFails ==
    (last.op = "open" /\ Pristine /\ last.pwd # origin.pwd)
        => (last.ret = -1 /\ vault.isNull)

C6_Witness ==
    /\ last.op = "open" /\ Pristine /\ last.pwd # origin.pwd
    /\ last.step = "verify" /\ last.ret = -1 /\ vault.isNull

\* C7: with any single byte of the metadata file rvault_init wrote changed,
\* rvault_open with the correct passphrase fails and returns no handle.
C7_TamperedFails ==
    (last.op = "open" /\ OneByteChanged /\ last.pwd = origin.pwd)
        => (last.ret = -1 /\ vault.isNull)

C7_Witness ==
    /\ last.op = "open" /\ OneByteChanged /\ last.pwd = origin.pwd /\ last.clean
    /\ \E i \in ChangedCells : i > Len(disk.cells) - HMAC_SHA3_256_BUFLEN
    /\ last.step = "verify" /\ last.ret = -1

\* C8: an open with the correct passphrase that fails because one byte of the
\* metadata was changed reports what an open of the untouched vault with a
\* wrong passphrase reports.
C8_SameMessage ==
    (/\ bigEndian /\ last.op = "open" /\ OneByteChanged
     /\ last.pwd = origin.pwd /\ last.clean /\ last.ret = -1)
        => \A p \in Passphrases \ {origin.pwd} :
              rvault_open(origin.file, server,
                          [path |-> "vault", server |-> last.srvurl, pwd |-> p],
                          [fault |-> "none", auth |-> TRUE, junk |-> TRUE]).msg = last.msg

\* C9: rvault_open refuses a metadata file that is shorter than the aligned
\* header, of another version, or of another length than its header fields
\* give, before K_p is derived and before the server is asked; and in every
\* open the server is asked only after K_p was derived, the HMAC compared only
\* after the key was obtained.
C9_RejectBeforeKeys ==
    last.op = "open" =>
        /\ BadMetadata =>
              (last.ret = -1 /\ vault.isNull /\ ~last.derived /\ ~last.asked
               /\ ~last.verified)
        /\ last.asked => last.derived
        /\ last.verified => last.derived

C9_Witness ==
    /\ last.op = "open" /\ BadMetadata /\ last.clean
    /\ Len(disk.cells) >= RVAULT_HDR_LEN /\ disk.cells[OffVer] # RVAULT_ABI_VER
    /\ last.step = "version" /\ last.ret = -1

\* C10: in authenticated mode without a server URL, rvault_init fails, writes
\* no metadata file and registers nothing with the server; rvault_open returns
\* no handle and asks the server nothing.
C10_NoServerUrlFails ==
    [][/\ (InitStep /\ ~NoAuth(last'.flags) /\ last'.srvurl = "NULL")
           => (last'.ret = -1 /\ disk' = disk /\ server' = server /\ ~last'.asked)
       /\ (/\ last'.op = "open" /\ last'.srvurl = "NULL"
           /\ Len(disk.cells) >= RVAULT_HDR_LEN /\ ~NoAuth(disk.cells[OffFlags]))
           => (last'.ret = -1 /\ vault'.isNull /\ ~last'.asked)]_vars

C10_Witness ==
    /\ last.op = "open" /\ last.srvurl = "NULL" /\ last.step = "server_url"
    /\ Pristine /\ ~NoAuth(origin.flags) /\ last.ret = -1 /\ vault.isNull

\* C11: with the NOAUTH flag set, rvault_init and rvault_open do not ask the
\* key server, with or without a server URL; the key the HMAC is computed
\* with and the key installed in the handle is K_p.
C11_NoAuthNoServer ==
    [][/\ (InitStep /\ NoAuth(last'.flags))
           => /\ ~last'.asked /\ server' = server
              /\ last'.ret = 0
                   => /\ origin'.key.kind = "Kp" /\ origin'.key.pwd = origin'.pwd
                      /\ HasMacCell(disk'.cells) => disk'.mac.key = origin'.key
       /\ (/\ last'.op = "open"
           /\ Len(disk.cells) >= RVAULT_HDR_LEN /\ NoAuth(disk.cells[OffFlags]))
           => /\ ~last'.asked /\ server' = server
              /\ ~vault'.isNull => vault'.key = PassphraseKey(last'.pwd, FileKp)]_vars

C11_Witness ==
    /\ last.op = "open" /\ ~vault.isNull /\ last.srvurl # "NULL"
    /\ NoAuth(disk.cells[OffFlags]) /\ NoAuth(origin.flags)
    /\ vault.key = PassphraseKey(last.pwd, FileKp) /\ ~last.asked
    /\ server = NoServer

\* C12: rvault_open_ekey builds the vault from the METADATA section and
\* installs the EKEY section as the key: nothing is asked of the server,
\* nothing read of the passphrase, the HMAC of the section is not looked at;
\* the handle has no server URL; when the key is refused the vault object is
\* closed and no handle returned.
C12_OpenEkey ==
    [][last'.op = "open_ekey" =>
        /\ server' = server /\ disk' = disk
        /\ ~last'.derived /\ ~last'.asked /\ ~last'.verified
        /\ ~vault'.isNull =>
              /\ last'.step = "done" /\ last'.vclosed = 0
              /\ vault'.key = last'.ekey /\ vault'.key # NoKey
              /\ vault'.server_url = "NULL"
              /\ vault'.cipher = last'.meta[OffCipher]
              /\ vault'.uid = GetCells(last'.meta, OffUid - 1, UidLen)
        /\ last'.step = "set_key" => (vault'.isNull /\ last'.vclosed = 1)]_vars

C12_Witness ==
    /\ last.op = "open_ekey" /\ ~vault.isNull /\ vault.key = last.ekey
    /\ ~NoAuth(last.meta[OffFlags]) /\ vault.key.kind = "Ke" /\ vault.server_url = "NULL"
    /\ GetCells(last.meta, Len(last.meta) - HMAC_SHA3_256_BUFLEN, HMAC_SHA3_256_BUFLEN)
         # MacCells

\* C20: rvault_open_hdr reads the header fields and the IV only inside the
\* first file_len bytes of the buffer it is given, called from rvault_open and
\* called from rvault_open_ekey.
C20_HdrReadsInside ==
    last.op \in {"open", "open_ekey"} => ~last.hdr_oob

\* C13: rvault_close terminates; every turn of its loop closes the first
\* file object of the list and takes exactly that one off; the vault is freed
\* only when the list is empty and file_count is 0 (the ASSERT holds), and
\* then no key is installed and the crypto object is destroyed.
C13_CloseTerminates ==
    /\ (~vault.isNull /\ vault.closing) ~> vault.isNull
    /\ [][(~vault.isNull /\ vault.closing) =>
            /\ vault.file_count = Len(vault.file_list)
            /\ ~vault'.isNull =>
                  /\ vault.file_list # << >>
                  /\ vault'.file_list = Tail(vault.file_list)
                  /\ vault'.file_count = vault.file_count - 1
                  /\ vault'.key = vault.key /\ vault'.closing
            /\ vault'.isNull =>
                  /\ vault.file_list = << >> /\ vault.file_count = 0
                  /\ last'.op = "close" /\ last'.ret = 0 /\ last'.left = 0
                  /\ last'.crypto = "destroyed" /\ vault'.key = NoKey]_vars

C13_Witness ==
    /\ ~vault.isNull /\ vault.closing /\ Len(vault.file_list) = MaxFiles
    /\ vault.key # NoKey

\* The entries of the enumerated directory rvault_iter_dir must not show.
Hidden(vname) ==
    /\ vname # NameDot /\ vname # NameDotDot
    /\ vname[1] = "." \/ HasPrefix(vname, RVAULT_META_PREF)

\* The directory entries the callback was invoked for.
Reported == {last.calls[k].dp : k \in 1..Len(last.calls)}

\* C14: rvault_iter_dir never invokes the callback for the metadata file or
\* for another entry whose name begins with a dot or with the metadata prefix;
\* "." and ".." are passed as they are, every other entry with its resolved
\* name; no entry is passed twice, and an enumeration that succeeds has
\* passed every entry that is not hidden.
C14_IterHidesMetadata ==
    last.op = "iter" =>
        /\ \A k \in 1..Len(last.calls) :
              /\ last.calls[k].dp \in 1..Len(last.dir)
              /\ ~Hidden(last.dir[last.calls[k].dp])
              /\ last.calls[k].name # RVAULT_META_FILE
              /\ last.calls[k].name =
                    IF last.dir[last.calls[k].dp] \in {NameDot, NameDotDot}
                    THEN last.dir[last.calls[k].dp]
                    ELSE rvault_resolve_vname(last.dir[last.calls[k].dp], {}).name
        /\ \A k, l \in 1..Len(last.calls) : k < l => last.calls[k].dp < last.calls[l].dp
        /\ (last.ret = 0 /\ last.step = "none") =>
              Reported = {i \in 1..Len(last.dir) : ~Hidden(last.dir[i])}

C14_Witness ==
    /\ last.op = "iter" /\ last.ret = 0 /\ last.step = "none"
    /\ last.dir = << NameDot, RVAULT_META_FILE, << "A" >> >>
    /\ last.calls = << IterCall(NameDot, 1), IterCall(<< "a" >>, 3) >>

\* C15: a stored name that does not resolve is skipped: the callback is not
\* invoked for it, every entry that resolves is still reported, and the
\* enumeration succeeds.
C15_UnresolvedSkipped ==
    (last.op = "iter" /\ last.step = "none") =>
        /\ last.ret = 0
        /\ Reported = {i \in 1..Len(last.dir) :
                          ~Hidden(last.dir[i]) /\ last.dir[i] \notin last.bad}

\* C16: the record rvault_init has written agrees with the layout macros:
\* RVAULT_FILE_LEN of its header is the number of bytes written, and the HMAC
\* lies where RVAULT_HDR_TO_HMAC says, inside the record, as its last bytes.
C16_RecordMatchesMacros ==
    (last.op = "init" /\ last.ret = 0) =>
        /\ RVAULT_FILE_LEN(disk.cells) = Len(disk.cells)
        /\ RVAULT_HDR_TO_HMAC(disk.cells) + HMAC_SHA3_256_BUFLEN = Len(disk.cells)
        /\ GetCells(disk.cells, RVAULT_HDR_TO_HMAC(disk.cells), HMAC_SHA3_256_BUFLEN)
              = MacCells

\* The steps rvault_open can fail at once the vault object exists.
OpenStepsWithVault ==
    {"crypto_create", "set_iv", "passphrasekey", "server_url", "key_get", "verify"}

\* C17: however rvault_open ends, the descriptor of the metadata file is
\* closed, and the mapping is unmapped once when it was made and never
\* otherwise; a failure after the vault object was created closes the vault
\* once and returns no handle, and a success closes nothing of the vault.
C17_OpenReleases ==
    last.op = "open" =>
        /\ last.fdclosed = last.fdopened
        /\ last.mapped => last.fdopened = 1
        /\ last.unmaps = (IF last.mapped THEN 1 ELSE 0)
        /\ last.ret = -1 =>
              /\ vault.isNull
              /\ last.vclosed = (IF last.step \in OpenStepsWithVault THEN 1 ELSE 0)
        /\ last.ret = 0 =>
              /\ ~vault.isNull /\ last.step = "done"
              /\ last.mapped /\ last.vclosed = 0

C17_Witness ==
    /\ last.op = "open" /\ last.ret = -1 /\ last.step = "verify"
    /\ last.mapped /\ last.unmaps = 1 /\ last.vclosed = 1
    /\ last.fdopened = 1 /\ last.fdclosed = 1 /\ vault.isNull

\* C18: when rvault_init returns, with success or with failure, the crypto
\* object it created (none was created when the cipher or crypto_create
\* failed) has been destroyed, and the metadata file holds header, IV and
\* KDF-parameter bytes and bytes of the HMAC only.
C18_InitDestroysCrypto ==
    (last.op = "init" /\ last.step # "killed") =>
        /\ last.crypto = (IF last.step \in {"cipher", "crypto_create"}
                          THEN "none" ELSE "destroyed")
        /\ \A i \in 1..Len(disk.cells) :
              \/ disk.cells[i] < 256
              \/ \E j \in 1..HMAC_SHA3_256_BUFLEN : disk.cells[i] = MacCell(j, 0)

C18_Witness ==
    /\ last.op = "init" /\ last.ret = -1 /\ last.step = "open" /\ last.existed
    /\ last.crypto = "destroyed"

\* C19: a rvault_init that has failed has left the key server as it was: it
\* holds the wrapped key of the vault created before, or none.
C19_FailedInitKeepsServer ==
    (last.op = "init" /\ last.ret = -1 /\ last.step # "killed") =>
        server.ks = (IF origin.valid THEN origin.ks ELSE NoWrapped)

====
